---- MODULE Spec2Model ----
(***************************************************************************)
(* Model of the chunking engine of rag/processing/chunker.py.              *)
(*                                                                         *)
(* A text is a sequence of one-character strings.  One behaviour is one    *)
(* call chunk_text(text, chunk_size, chunk_overlap, metadata, strategy),   *)
(* followed by the caller touching the metadata of the returned chunks.    *)
(***************************************************************************)
EXTENDS Integers, Sequences, FiniteSets, TLC

\* ------------------------------------------------------------------------
\* Bounds of the explored inputs
\* ------------------------------------------------------------------------
MaxLen == 4
MaxSize == 4
MaxOverlap == 4
MaxAppends == 1

\* Cap on the number of chunks a window loop that never advances may pile up
\* (a terminating loop over a text of at most MaxLen characters stays below).
MaxChunks == MaxLen + 2

\* ------------------------------------------------------------------------
\* Program constants
\* ------------------------------------------------------------------------
DefaultChunkSize == 512
DefaultChunkOverlap == 50

\* Python's None for an omitted integer argument
None == -1

\* Characters the enumerated texts are built from
Alphabet == {"a", " ", ".", ",", "\n"}

UpperChars == {"A", "B", "C", "D", "E", "F", "G", "H", "I", "J", "K", "L", "M",
               "N", "O", "P", "Q", "R", "S", "T", "U", "V", "W", "X", "Y", "Z"}
LowerChars == {"a", "b", "c", "d", "e", "f", "g", "h", "i", "j", "k", "l", "m",
               "n", "o", "p", "q", "r", "s", "t", "u", "v", "w", "x", "y", "z"}
DigitChars == {"0", "1", "2", "3", "4", "5", "6", "7", "8", "9"}

\* \s of the re module
IsSpace(c) == c \in {" ", "\n", "\t", "\r"}
\* \w of the re module
IsWord(c) == c \in UpperChars \cup LowerChars \cup DigitChars \cup {"_"}
IsUpper(c) == c \in UpperChars
IsLower(c) == c \in LowerChars

Min(a, b) == IF a < b THEN a ELSE b
Max(a, b) == IF a > b THEN a ELSE b
SetMax(S) == CHOOSE x \in S : \A y \in S : y <= x

\* ------------------------------------------------------------------------
\* Python string primitives
\* ------------------------------------------------------------------------

\* x or d, for an int (or None) x
PyOr(x, d) == IF x = None \/ x = 0 THEN d ELSE x

\* Normalisation of a slice bound: negative bounds count from the end
SliceBound(b, n) == IF b < 0 THEN Max(b + n, 0) ELSE Min(b, n)

\* s[a:b] with 0-based, possibly negative, bounds
PySlice(s, a, b) == SubSeq(s, SliceBound(a, Len(s)) + 1, SliceBound(b, Len(s)))

\* s[a:]
PySliceFrom(s, a) == SubSeq(s, SliceBound(a, Len(s)) + 1, Len(s))

RECURSIVE LStrip(_)
LStrip(s) ==
    IF s = <<>> THEN s
    ELSE IF IsSpace(Head(s)) THEN LStrip(Tail(s)) ELSE s

RECURSIVE RStrip(_)
RStrip(s) ==
    IF s = <<>> THEN s
    ELSE IF IsSpace(s[Len(s)]) THEN RStrip(SubSeq(s, 1, Len(s) - 1)) ELSE s

\* s.strip()
Strip(s) == RStrip(LStrip(s))

\* sep in s, for a non-empty sep
Contains(s, sep) ==
    \E i \in 1..(Len(s) - Len(sep) + 1) : SubSeq(s, i, i + Len(sep) - 1) = sep

\* s.split(sep) for a non-empty sep: i scans, st is where the open piece starts
RECURSIVE SplitFrom(_, _, _, _)
SplitFrom(s, sep, i, st) ==
    IF i + Len(sep) - 1 > Len(s) THEN << SubSeq(s, st, Len(s)) >>
    ELSE IF SubSeq(s, i, i + Len(sep) - 1) = sep
         THEN << SubSeq(s, st, i - 1) >> \o SplitFrom(s, sep, i + Len(sep), i + Len(sep))
         ELSE SplitFrom(s, sep, i + 1, st)

Split(s, sep) == SplitFrom(s, sep, 1, 1)

\* s.rfind(sep, start) for a non-empty sep: 0-based index, -1 when absent
RFind(s, sep, start) ==
    LET from == SliceBound(start, Len(s))
        hits == {i \in from..(Len(s) - Len(sep)) : SubSeq(s, i + 1, i + Len(sep)) = sep}
    IN  IF hits = {} THEN -1 ELSE SetMax(hits)

\* sep.join(parts)
RECURSIVE Join(_, _)
Join(parts, sep) ==
    IF parts = <<>> THEN <<>>
    ELSE IF Len(parts) = 1 THEN parts[1]
    ELSE parts[1] \o sep \o Join(Tail(parts), sep)

\* "".join(parts)
Concat(parts) == Join(parts, <<>>)

\* [f(p) for p in parts if p.strip()] with f = strip
RECURSIVE StripNonBlank(_)
StripNonBlank(parts) ==
    IF parts = <<>> THEN <<>>
    ELSE IF Strip(Head(parts)) = <<>> THEN StripNonBlank(Tail(parts))
         ELSE << Strip(Head(parts)) >> \o StripNonBlank(Tail(parts))

\* End (1-based, inclusive) of the match of \n\s*\n that starts at i, 0 if none:
\* \s* is greedy, so the match runs to the last newline of the whitespace run.
ParagraphBreakEnd(s, i) ==
    LET ends == {j \in (i + 1)..Len(s) :
                    s[j] = "\n" /\ \A k \in (i + 1)..(j - 1) : IsSpace(s[k])}
    IN  IF s[i] = "\n" /\ ends # {} THEN SetMax(ends) ELSE 0

\* re.split(r'\n\s*\n', s)
RECURSIVE ParagraphSplitFrom(_, _, _)
ParagraphSplitFrom(s, i, st) ==
    IF i > Len(s) THEN << SubSeq(s, st, Len(s)) >>
    ELSE IF ParagraphBreakEnd(s, i) # 0
         THEN << SubSeq(s, st, i - 1) >>
              \o ParagraphSplitFrom(s, ParagraphBreakEnd(s, i) + 1, ParagraphBreakEnd(s, i) + 1)
         ELSE ParagraphSplitFrom(s, i + 1, st)

\* The sentence pattern (?<!\w\.\w.)(?<![A-Z][a-z]\.)(?<=\.|\?|\!)\s matches
\* the single character at i
SentenceBreakAt(s, i) ==
    /\ IsSpace(s[i])
    /\ i >= 2
    /\ s[i - 1] \in {".", "?", "!"}
    /\ ~(i >= 5 /\ IsWord(s[i - 4]) /\ s[i - 3] = "." /\ IsWord(s[i - 2]) /\ s[i - 1] # "\n")
    /\ ~(i >= 4 /\ IsUpper(s[i - 3]) /\ IsLower(s[i - 2]) /\ s[i - 1] = ".")

\* re.split(sentence_pattern, s)
RECURSIVE SentenceSplitFrom(_, _, _)
SentenceSplitFrom(s, i, st) ==
    IF i > Len(s) THEN << SubSeq(s, st, Len(s)) >>
    ELSE IF SentenceBreakAt(s, i)
         THEN << SubSeq(s, st, i - 1) >> \o SentenceSplitFrom(s, i + 1, i + 1)
         ELSE SentenceSplitFrom(s, i + 1, st)

\* ------------------------------------------------------------------------
\* Chunk and its metadata
\* ------------------------------------------------------------------------

\* A dict maps its keys to integers: a scalar value, or for the keys of
\* RefKeys the address of a list object on the heap.
RefKeys == {"tags"}
TagsAddr == 1

\* d[k] = v
DictSet(d, k, v) == [x \in (DOMAIN d) \cup {k} |-> IF x = k THEN v ELSE d[x]]

\* d.copy(): a new dict with the same keys bound to the same values; a value
\* that is an address still names the same heap object
DictCopy(d) == [x \in DOMAIN d |-> d[x]]

EmptyDict == [x \in {} |-> 0]

\* Chunk(text, metadata, chunk_index)
Chunk(text, metadata, chunk_index) ==
    [text |-> text,
     metadata |-> DictSet(DictCopy(metadata), "chunk_index", chunk_index),
     embedding |-> None]

\* Result of a call that is modelled as one step: outcome is "ok" (returned
\* chunks), "raise" (an exception escaped) or "diverge" (the loop never ends)
Ok(cs) == [outcome |-> "ok", chunks |-> cs]
Raise == [outcome |-> "raise", chunks |-> <<>>]
Diverge == [outcome |-> "diverge", chunks |-> <<>>]

RECURSIVE SumLen(_)
SumLen(parts) == IF parts = <<>> THEN 0 ELSE Len(Head(parts)) + SumLen(Tail(parts))

\* ------------------------------------------------------------------------
\* chunk_text_fixed_size
\* ------------------------------------------------------------------------

\* start += (chunk_size - chunk_overlap)
WindowStep(size, overlap) == size - overlap

\* end = min(start + chunk_size, len(text))
WindowEnd(st, size, n) == Min(st + size, n)

\* One pass through the body of the while loop; w holds start, chunk_index
\* and chunks
FixedSizeBody(w, txt, size, overlap, md) ==
    [start |-> w.start + WindowStep(size, overlap),
     chunk_index |-> w.chunk_index + 1,
     chunks |-> Append(w.chunks,
                       Chunk(PySlice(txt, w.start, WindowEnd(w.start, size, Len(txt))),
                             md, w.chunk_index))]

RECURSIVE FixedSizeLoop(_, _, _, _, _)
FixedSizeLoop(w, txt, size, overlap, md) ==
    IF w.start < Len(txt)
    THEN FixedSizeLoop(FixedSizeBody(w, txt, size, overlap, md), txt, size, overlap, md)
    ELSE w.chunks

\* chunk_text_fixed_size as one value, for its use inside _recursive_chunk.
\* With a step <= 0 start never passes 0 < len(text): the loop does not end.
ChunkTextFixedSize(txt, size, overlap, md) ==
    IF Strip(txt) = <<>> THEN Ok(<<>>)
    ELSE IF WindowStep(size, overlap) <= 0 THEN Diverge
    ELSE Ok(FixedSizeLoop([start |-> 0, chunk_index |-> 0, chunks |-> <<>>],
                          Strip(txt), size, overlap, md))

\* ------------------------------------------------------------------------
\* chunk_text_by_paragraph
\* ------------------------------------------------------------------------

\* A slip: the new chunk is not seeded
OverlapParagraphs_None(cur, k, acc, overlap) == <<>>

\* for p in reversed(current_chunk): whole trailing paragraphs while their
\* cumulative length stays <= chunk_overlap; k is the next one to look at
RECURSIVE OverlapParagraphs(_, _, _, _)
OverlapParagraphs(cur, k, acc, overlap) ==
    IF k = 0 THEN acc
    ELSE IF SumLen(acc) + Len(cur[k]) <= overlap
         THEN OverlapParagraphs(cur, k - 1, << cur[k] >> \o acc, overlap)
         ELSE acc

\* The test that starts a new chunk before the paragraph is added
ParagraphOverflows(b, paragraph, size) ==
    b.current_size + Len(paragraph) > size /\ b.current_chunk # <<>>

\* Body of the for loop over the paragraphs; b holds chunks, current_chunk,
\* current_size and chunk_index
ParagraphBody(b, paragraph, size, overlap, md) ==
    LET ov == OverlapParagraphs(b.current_chunk, Len(b.current_chunk), <<>>, overlap)
        b1 == IF ParagraphOverflows(b, paragraph, size)
              THEN [chunks |-> Append(b.chunks,
                                      Chunk(Join(b.current_chunk, << "\n", "\n" >>),
                                            md, b.chunk_index)),
                    current_chunk |-> ov,
                    current_size |-> SumLen(ov),
                    chunk_index |-> b.chunk_index + 1]
              ELSE b
    IN  [b1 EXCEPT !.current_chunk = Append(@, paragraph),
                   !.current_size = @ + Len(paragraph)]

RECURSIVE ParagraphLoop(_, _, _, _, _, _)
ParagraphLoop(b, paragraphs, k, size, overlap, md) ==
    IF k > Len(paragraphs)
    THEN IF b.current_chunk # <<>>
         THEN Append(b.chunks,
                     Chunk(Join(b.current_chunk, << "\n", "\n" >>), md, b.chunk_index))
         ELSE b.chunks
    ELSE ParagraphLoop(ParagraphBody(b, paragraphs[k], size, overlap, md),
                       paragraphs, k + 1, size, overlap, md)

\* paragraphs = [p.strip() for p in re.split(r'\n\s*\n', text) if p.strip()]
Paragraphs(txt) == StripNonBlank(ParagraphSplitFrom(txt, 1, 1))

ChunkTextByParagraph(txt, size, overlap, md) ==
    IF Paragraphs(txt) = <<>> THEN Ok(<<>>)
    ELSE Ok(ParagraphLoop([chunks |-> <<>>, current_chunk |-> <<>>,
                           current_size |-> 0, chunk_index |-> 0],
                          Paragraphs(txt), 1, size, overlap, md))

\* ------------------------------------------------------------------------
\* chunk_text_by_sentence
\* ------------------------------------------------------------------------

RECURSIVE OverlapSentences(_, _, _, _)
OverlapSentences(cur, k, acc, overlap) ==
    IF k = 0 THEN acc
    ELSE IF SumLen(acc) + Len(cur[k]) <= overlap
         THEN OverlapSentences(cur, k - 1, << cur[k] >> \o acc, overlap)
         ELSE acc

\* A slip: the windows do not overlap
SentenceWindows_StepIsSize(sentence, i, size, overlap, md, idx) ==
    [k \in 1..((Len(sentence) + size - 1) \div size) |->
        Chunk(PySlice(sentence, (k - 1) * size, Min(k * size, Len(sentence))), md, idx + k - 1)]

\* for i in range(0, sentence_size, step) with step > 0: the windows of a
\* sentence longer than chunk_size, numbered from idx
RECURSIVE SentenceWindows(_, _, _, _, _, _)
SentenceWindows(sentence, i, size, overlap, md, idx) ==
    IF i >= Len(sentence) THEN <<>>
    ELSE << Chunk(PySlice(sentence, i, Min(i + size, Len(sentence))), md, idx) >>
         \o SentenceWindows(sentence, i + (size - overlap), size, overlap, md, idx + 1)

\* The long-sentence branch: the buffer is emitted first, then the windows.
\* range() raises ValueError for a step of 0 and is empty for a negative one.
LongSentenceBody(b, sentence, size, overlap, md) ==
    LET b1 == IF b.current_chunk # <<>>
              THEN [b EXCEPT !.chunks = Append(@, Chunk(Join(b.current_chunk, << " " >>),
                                                         md, b.chunk_index)),
                             !.chunk_index = @ + 1,
                             !.current_chunk = <<>>,
                             !.current_size = 0]
              ELSE b
        ws == IF size - overlap < 0 THEN <<>>
              ELSE SentenceWindows(sentence, 0, size, overlap, md, b1.chunk_index)
    IN  IF size - overlap = 0 THEN [b1 EXCEPT !.outcome = "raise"]
        ELSE [b1 EXCEPT !.chunks = @ \o ws, !.chunk_index = @ + Len(ws)]

\* The test that starts a new chunk before the sentence is added
SentenceOverflows(b, sentence, size) ==
    b.current_size + Len(sentence) > size /\ b.current_chunk # <<>>

\* Body of the for loop over the sentences
SentenceBody(b, sentence, size, overlap, md) ==
    IF Len(sentence) > size THEN LongSentenceBody(b, sentence, size, overlap, md)
    ELSE
    LET ov == OverlapSentences(b.current_chunk, Len(b.current_chunk), <<>>, overlap)
        b1 == IF SentenceOverflows(b, sentence, size)
              THEN [b EXCEPT !.chunks = Append(@, Chunk(Join(b.current_chunk, << " " >>),
                                                         md, b.chunk_index)),
                             !.current_chunk = ov,
                             !.current_size = SumLen(ov),
                             !.chunk_index = @ + 1]
              ELSE b
    IN  [b1 EXCEPT !.current_chunk = Append(@, sentence),
                   !.current_size = @ + Len(sentence)]

RECURSIVE SentenceLoop(_, _, _, _, _, _)
SentenceLoop(b, sentences, k, size, overlap, md) ==
    IF b.outcome # "ok" THEN Raise
    ELSE IF k > Len(sentences)
    THEN IF b.current_chunk # <<>>
         THEN Ok(Append(b.chunks, Chunk(Join(b.current_chunk, << " " >>), md, b.chunk_index)))
         ELSE Ok(b.chunks)
    ELSE SentenceLoop(SentenceBody(b, sentences[k], size, overlap, md),
                      sentences, k + 1, size, overlap, md)

\* sentences = [s.strip() for s in re.split(sentence_pattern, text) if s.strip()]
Sentences(txt) == StripNonBlank(SentenceSplitFrom(txt, 1, 1))

ChunkTextBySentence(txt, size, overlap, md) ==
    IF Sentences(txt) = <<>> THEN Ok(<<>>)
    ELSE SentenceLoop([chunks |-> <<>>, current_chunk |-> <<>>, current_size |-> 0,
                       chunk_index |-> 0, outcome |-> "ok"],
                      Sentences(txt), 1, size, overlap, md)

\* ------------------------------------------------------------------------
\* chunk_text_recursive
\* ------------------------------------------------------------------------

\* separators, by priority
Separators ==
    << << "\n", "\n" >>, << "\n" >>, << ".", " " >>, << ",", " " >>, << " " >>, <<>> >>

\* piece = split + separator if separator and split != splits[-1] else split
Piece(splits, k, separator) ==
    IF separator # <<>> /\ splits[k] # splits[Len(splits)]
    THEN splits[k] \o separator
    ELSE splits[k]

\* for sep in separators: the text after the last occurrence of the first
\* separator that occurs inside the overlap region, "" when there is none
RECURSIVE OverlapScan(_, _, _)
OverlapScan(remaining, seps, overlap) ==
    IF seps = <<>> THEN <<>>
    ELSE LET sep == Head(seps)
             overlap_point == RFind(remaining, sep, Len(remaining) - overlap)
         IN  IF /\ sep # <<>>
                /\ Contains(remaining, sep)
                /\ overlap_point # -1
                /\ overlap_point > Len(remaining) - overlap * 2
             THEN PySliceFrom(remaining, overlap_point + Len(sep))
             ELSE OverlapScan(remaining, Tail(seps), overlap)

\* The overlap text that seeds the buffer after chunk_text was emitted
OverlapText(chunk_text, seps, overlap) ==
    LET found == OverlapScan(chunk_text, seps, overlap)
    IN  IF found = <<>> /\ overlap > 0
        THEN PySliceFrom(chunk_text, 0 - overlap)
        ELSE found

\* A slip: the counter advances by one, whatever the nested call returned
AfterSubChunks_CountsOne(chunk_index, sub_chunks) == chunk_index + 1

\* chunk_index += len(sub_chunks)
AfterSubChunks(chunk_index, sub_chunks) == chunk_index + Len(sub_chunks)

\* The test that emits the buffer before the piece is added
PieceOverflows(r, piece, size) ==
    r.current_length + Len(piece) > size /\ r.current_chunks # <<>>

\* r with the buffer emitted as one chunk
EmitBuffer(r, md) ==
    [r EXCEPT !.results = Append(@, Chunk(Concat(r.current_chunks), md, r.chunk_index)),
              !.chunk_index = @ + 1]

\* c is the closure of _recursive_chunk: chunk_size, chunk_overlap, metadata.
\* r holds results, current_chunks, current_length and chunk_index.
RECURSIVE RecursiveChunk(_, _, _, _)
RECURSIVE RecursiveLoop(_, _, _, _, _)

RecursiveLoop(r, splits, k, seps, c) ==
    IF k > Len(splits)
    THEN IF r.current_chunks # <<>> THEN Ok(EmitBuffer(r, c.metadata).results)
         ELSE Ok(r.results)
    ELSE
    LET piece == Piece(splits, k, Head(seps))
    IN  IF Len(piece) > c.chunk_size
        THEN LET r1 == IF r.current_chunks # <<>>
                       THEN [EmitBuffer(r, c.metadata) EXCEPT !.current_chunks = <<>>,
                                                              !.current_length = 0]
                       ELSE r
                 sub == RecursiveChunk(piece, Tail(seps), r1.chunk_index, c)
             IN  IF sub.outcome # "ok" THEN sub
                 ELSE RecursiveLoop([r1 EXCEPT !.results = @ \o sub.chunks,
                                               !.chunk_index = AfterSubChunks(@, sub.chunks)],
                                    splits, k + 1, seps, c)
        ELSE LET ov == OverlapText(Concat(r.current_chunks), seps, c.chunk_overlap)
                 r1 == IF PieceOverflows(r, piece, c.chunk_size)
                       THEN [EmitBuffer(r, c.metadata) EXCEPT !.current_chunks = << ov >>,
                                                              !.current_length = Len(ov)]
                       ELSE r
             IN  RecursiveLoop([r1 EXCEPT !.current_chunks = Append(@, piece),
                                          !.current_length = @ + Len(piece)],
                               splits, k + 1, seps, c)

\* _recursive_chunk(text, separators, chunk_index); text.split("") raises
\* ValueError (empty separator)
RecursiveChunk(txt, seps, chunk_index, c) ==
    IF Len(txt) <= c.chunk_size THEN Ok(<< Chunk(txt, c.metadata, chunk_index) >>)
    ELSE IF seps = <<>>
    THEN ChunkTextFixedSize(txt, c.chunk_size, c.chunk_overlap, c.metadata)
    ELSE IF Head(seps) = <<>> THEN Raise
    ELSE IF Len(Split(txt, Head(seps))) = 1
    THEN RecursiveChunk(txt, Tail(seps), chunk_index, c)
    ELSE RecursiveLoop([results |-> <<>>, current_chunks |-> <<>>,
                        current_length |-> 0, chunk_index |-> chunk_index],
                       Split(txt, Head(seps)), 1, seps, c)

ChunkTextRecursive(txt, size, overlap, md) ==
    RecursiveChunk(txt, Separators, 0,
                   [chunk_size |-> size, chunk_overlap |-> overlap, metadata |-> md])

\* ------------------------------------------------------------------------
\* Extraction results (rag/data_ingestion)
\* ------------------------------------------------------------------------

\* if text and len(text.strip()) > 100
QualityThreshold == 100

\* An extracted text is known by the backend that produced it, its length and
\* the number of its leading and trailing whitespace characters
EmptyText == [by |-> "none", len |-> 0, ws |-> 0]

\* len(text.strip())
TrimmedLen(t) == t.len - t.ws

\* The text of n characters, w of them leading or trailing whitespace, that
\* backend b returns; every empty text is the same string ""
TextOf(b, n, w) == IF n = 0 THEN EmptyText ELSE [by |-> b, len |-> n, ws |-> w]

\* Trimmed lengths of the texts the backends return
TrimmedLens == {0, 40, QualityThreshold, QualityThreshold + 1, 300, 500}

BackendTexts(b) == {TextOf(b, n + w, w) : n \in TrimmedLens, w \in {0, 1}}

\* str(e) of the exception a backend raised, or no exception
NoError == [stage |-> "none", kind |-> "none"]
ErrorOf(b, k) == [stage |-> b, kind |-> k]

\* What one call of a backend does: it returns a text, or it raises
\* ImportError (the library is not installed) or another Exception
Returned(t) == [kind |-> "text", text |-> t, error |-> NoError]
Raised(b, k) == [kind |-> k, text |-> EmptyText, error |-> ErrorOf(b, k)]

BackendOutcomes(b) ==
    {Returned(t) : t \in BackendTexts(b)} \cup {Raised(b, "ImportError"), Raised(b, "Exception")}

\* The metadata a loader builds next to the text a stage returned; the keys
\* that differ from stage to stage are held as extraction_method
StageMetadata(fmt, b) ==
    [source_type |-> fmt, extraction_method |-> b,
     extraction_success |-> "absent", extraction_error |-> NoError]

\* return "", {"source_type": ..., "extraction_error": str(e),
\*             "extraction_success": False}
FailureResult(fmt, e) ==
    [text |-> EmptyText,
     metadata |-> [source_type |-> fmt, extraction_method |-> "none",
                   extraction_success |-> "False", extraction_error |-> e]]

\* A slip: the stage's text is dropped
StageResult_TextDropped(fmt, b, t) == [text |-> EmptyText, metadata |-> StageMetadata(fmt, b)]

StageResult(fmt, b, t) == [text |-> t, metadata |-> StageMetadata(fmt, b)]

NoResult ==
    [text |-> EmptyText, metadata |-> StageMetadata("none", "none"), file_extension |-> <<>>]

\* A slip: any non-empty text passes
Gate_AnyText(t) == t.len > 0

\* A slip: the threshold is 300
Gate_Above300(t) == t.len > 0 /\ TrimmedLen(t) > 300

\* The quality gate of load_pdf
Gate(t) == t.len > 0 /\ TrimmedLen(t) > QualityThreshold

\* ------------------------------------------------------------------------
\* The call chunk_text(...) and what the caller does with its result
\* ------------------------------------------------------------------------

VARIABLES
    args,           \* the caller's arguments of chunk_text
    pc,             \* "call", "fixed_size" (inside the while loop), "done",
                    \* "raised" (an exception escaped), "diverged"
    chunk_size,     \* chunk_size after the defaults were applied
    chunk_overlap,  \* chunk_overlap after the defaults were applied
    metadata,       \* metadata after the default was applied
    text,           \* the stripped text of chunk_text_fixed_size
    start,          \* start of the next window of chunk_text_fixed_size
    chunk_index,    \* chunk_index of chunk_text_fixed_size
    chunks,         \* the chunks built so far; the returned list once pc = "done"
    heap,           \* the list objects the metadata values refer to
    touched         \* how many times the caller has changed a chunk's metadata

\* The variables of a chunk_text call
chunkVars == << args, pc, chunk_size, chunk_overlap, metadata, text, start, chunk_index,
                chunks, heap, touched >>

VARIABLES
    file_extension, \* the extension of file_path as os.path.splitext returns it
    file_exists,    \* whether file_path names a readable file
    lpc,            \* where load_document is: "idle", "call", a stage, "returned", "raised"
    invoked,        \* the backend calls made so far, with what each one did
    result          \* what load_document returned: text and metadata

\* The variables of a load_document call
loadVars == << file_extension, file_exists, lpc, invoked, result >>

VARIABLES
    ppc,            \* where process_document is: "idle", "uploaded", ..., "returned"
    status,         \* the "status" field of the document's metadata file
    written,        \* the status values written to that file, in order
    chunk_count,    \* the "chunk_count" field of the document's metadata file
    writable,       \* whether the metadata file can be opened, read and rewritten
    trace           \* the calls process_document has made, in order

\* The variables of a process_document task
procVars == << ppc, status, written, chunk_count, writable, trace >>

\* The variables of the ingestion of one document
ingestVars == << loadVars, procVars >>

VARIABLES
    fpc,            \* where the function under study is: "idle", "call", "done"
    fargs,          \* its arguments
    fret            \* what it returned

\* The variables of a call of a pure function
fnVars == << fpc, fargs, fret >>

VARIABLES
    files,          \* the metadata files: document id -> the JSON document
    tpc,            \* where each background task is
    local           \* the JSON document each task has read and not yet written

\* The variables of the background tasks of several documents
taskVars == << files, tpc, local >>

auxVars == << fnVars, taskVars >>

vars == << chunkVars, ingestVars, auxVars >>

\* No document is being loaded
LoadIdle ==
    /\ file_extension = <<>>
    /\ file_exists = TRUE
    /\ lpc = "idle"
    /\ invoked = <<>>
    /\ result = NoResult

\* No document is being processed
ProcIdle ==
    /\ ppc = "idle"
    /\ status = "none"
    /\ written = <<>>
    /\ chunk_count = None
    /\ writable = TRUE
    /\ trace = <<>>

\* No function is being studied on its own
FnIdle ==
    /\ fpc = "idle"
    /\ fargs = <<>>
    /\ fret = <<>>

\* No background task exists
TaskIdle ==
    /\ files = <<>>
    /\ tpc = <<>>
    /\ local = <<>>

\* No text is being chunked
ChunkIdle ==
    /\ args = [text |-> <<>>, chunk_size |-> None, chunk_overlap |-> None,
               metadata |-> EmptyDict, strategy |-> "sentence"]
    /\ pc = "idle"
    /\ chunk_size = None
    /\ chunk_overlap = None
    /\ metadata = EmptyDict
    /\ text = <<>>
    /\ start = 0
    /\ chunk_index = 0
    /\ chunks = <<>>
    /\ heap = [a \in {TagsAddr} |-> <<>>]
    /\ touched = 0

RECURSIVE TextsUpTo(_)
TextsUpTo(n) ==
    IF n = 0 THEN { <<>> }
    ELSE LET shorter == TextsUpTo(n - 1)
         IN  shorter \cup {Append(t, ch) : t \in {u \in shorter : Len(u) = n - 1},
                                          ch \in Alphabet}

Strategies == {"fixed_size", "paragraph", "sentence", "recursive"}

SourceValue == 7
ChangedValue == 8

\* The caller's metadata: none, or a dict with a scalar and a nested list
MetadataArgs == {EmptyDict, [source |-> SourceValue, tags |-> TagsAddr]}

\* "Sentence one. Sentence two. Sentence three."
SampleText ==
    << "S", "e", "n", "t", "e", "n", "c", "e", " ", "o", "n", "e", ".", " ",
       "S", "e", "n", "t", "e", "n", "c", "e", " ", "t", "w", "o", ".", " ",
       "S", "e", "n", "t", "e", "n", "c", "e", " ", "t", "h", "r", "e", "e", "." >>

SampleSize == 20
SampleOverlap == 5

SampleCall ==
    [text |-> SampleText, chunk_size |-> SampleSize, chunk_overlap |-> SampleOverlap,
     metadata |-> EmptyDict, strategy |-> "sentence"]

\* "One. Sentence two is long. End."
LongSentenceText ==
    << "O", "n", "e", ".", " ",
       "S", "e", "n", "t", "e", "n", "c", "e", " ", "t", "w", "o", " ", "i", "s", " ",
       "l", "o", "n", "g", ".", " ",
       "E", "n", "d", "." >>

LongSentenceSize == 10
LongSentenceOverlap == 3

LongSentenceCall ==
    [text |-> LongSentenceText, chunk_size |-> LongSentenceSize,
     chunk_overlap |-> LongSentenceOverlap, metadata |-> EmptyDict, strategy |-> "sentence"]

\* "ab\n\nc\n\nde\n\nfghijkl\n\nm"
ParagraphSampleText ==
    << "a", "b", "\n", "\n", "c", "\n", "\n", "d", "e", "\n", "\n",
       "f", "g", "h", "i", "j", "k", "l", "\n", "\n", "m" >>

ParagraphSampleSize == 5
ParagraphSampleOverlap == 3

ParagraphSampleCall ==
    [text |-> ParagraphSampleText, chunk_size |-> ParagraphSampleSize,
     chunk_overlap |-> ParagraphSampleOverlap, metadata |-> EmptyDict,
     strategy |-> "paragraph"]

Calls ==
    [text : TextsUpTo(MaxLen),
     chunk_size : {None} \cup 1..MaxSize,
     chunk_overlap : {None} \cup 0..MaxOverlap,
     metadata : MetadataArgs,
     strategy : Strategies]
    \cup {SampleCall, LongSentenceCall, ParagraphSampleCall}

Init ==
    /\ args \in Calls
    /\ pc = "call"
    /\ chunk_size = None
    /\ chunk_overlap = None
    /\ metadata = EmptyDict
    /\ text = <<>>
    /\ start = 0
    /\ chunk_index = 0
    /\ chunks = <<>>
    /\ heap = [a \in {TagsAddr} |-> <<>>]
    /\ touched = 0
    /\ LoadIdle
    /\ ProcIdle
    /\ FnIdle
    /\ TaskIdle

\* chunk_size = chunk_size or config.chunking.chunk_size
EffectiveSize(a) == PyOr(a.chunk_size, DefaultChunkSize)
\* chunk_overlap = chunk_overlap or config.chunking.chunk_overlap
EffectiveOverlap(a) == PyOr(a.chunk_overlap, DefaultChunkOverlap)
\* metadata = metadata or {}
EffectiveMetadata(a) == IF a.metadata = EmptyDict THEN EmptyDict ELSE a.metadata

\* The three assignments at the head of chunk_text
BindDefaults ==
    /\ chunk_size' = EffectiveSize(args)
    /\ chunk_overlap' = EffectiveOverlap(args)
    /\ metadata' = EffectiveMetadata(args)

\* The outcome of a strategy that is run as a single step
Finish(res) ==
    /\ pc' = IF res.outcome = "ok" THEN "done"
             ELSE IF res.outcome = "raise" THEN "raised" ELSE "diverged"
    /\ chunks' = res.chunks
    /\ UNCHANGED << args, text, start, chunk_index, heap, touched, ingestVars, auxVars >>

\* chunk_text with strategy fixed_size (or an unknown strategy), up to the
\* first test of the while loop
FixedSizeCall ==
    /\ pc = "call"
    /\ args.strategy \notin {"paragraph", "sentence", "recursive"}
    /\ BindDefaults
    /\ text' = Strip(args.text)
    /\ IF Strip(args.text) = <<>> THEN pc' = "done" ELSE pc' = "fixed_size"
    /\ start' = 0
    /\ chunk_index' = 0
    /\ chunks' = <<>>
    /\ UNCHANGED << args, heap, touched, ingestVars, auxVars >>

\* One iteration of the while loop of chunk_text_fixed_size
FixedSizeIterate ==
    /\ pc = "fixed_size"
    /\ start < Len(text)
    /\ Len(chunks) < MaxChunks
    /\ LET w == FixedSizeBody([start |-> start, chunk_index |-> chunk_index,
                               chunks |-> chunks],
                              text, chunk_size, chunk_overlap, metadata)
       IN  /\ start' = w.start
           /\ chunk_index' = w.chunk_index
           /\ chunks' = w.chunks
    /\ UNCHANGED << args, pc, chunk_size, chunk_overlap, metadata, text, heap, touched, ingestVars, auxVars >>

\* The while loop ends and chunk_text_fixed_size returns chunks
FixedSizeReturn ==
    /\ pc = "fixed_size"
    /\ ~(start < Len(text))
    /\ pc' = "done"
    /\ UNCHANGED << args, chunk_size, chunk_overlap, metadata, text, start, chunk_index,
                    chunks, heap, touched, ingestVars, auxVars >>

ParagraphCall ==
    /\ pc = "call"
    /\ args.strategy = "paragraph"
    /\ BindDefaults
    /\ Finish(ChunkTextByParagraph(args.text, EffectiveSize(args), EffectiveOverlap(args),
                                   EffectiveMetadata(args)))

SentenceCall ==
    /\ pc = "call"
    /\ args.strategy = "sentence"
    /\ BindDefaults
    /\ Finish(ChunkTextBySentence(args.text, EffectiveSize(args), EffectiveOverlap(args),
                                  EffectiveMetadata(args)))

RecursiveCall ==
    /\ pc = "call"
    /\ args.strategy = "recursive"
    /\ BindDefaults
    /\ Finish(ChunkTextRecursive(args.text, EffectiveSize(args), EffectiveOverlap(args),
                                 EffectiveMetadata(args)))

\* The caller rebinds a top-level key of the metadata of the i-th chunk
RebindMetadataValue(i) ==
    /\ pc = "done"
    /\ touched < MaxAppends
    /\ "source" \in DOMAIN chunks[i].metadata
    /\ chunks' = [chunks EXCEPT ![i].metadata["source"] = ChangedValue]
    /\ touched' = touched + 1
    /\ UNCHANGED << args, pc, chunk_size, chunk_overlap, metadata, text, start,
                    chunk_index, heap, ingestVars, auxVars >>

\* The caller appends to the list held under "tags" in the metadata of the
\* i-th chunk: the list object itself changes
AppendToNestedValue(i) ==
    /\ pc = "done"
    /\ touched < MaxAppends
    /\ "tags" \in DOMAIN chunks[i].metadata
    /\ heap' = [heap EXCEPT ![chunks[i].metadata["tags"]] = Append(@, ChangedValue)]
    /\ touched' = touched + 1
    /\ UNCHANGED << args, pc, chunk_size, chunk_overlap, metadata, text, start,
                    chunk_index, chunks, ingestVars, auxVars >>

Next ==
    \/ FixedSizeCall
    \/ FixedSizeIterate
    \/ FixedSizeReturn
    \/ ParagraphCall
    \/ SentenceCall
    \/ RecursiveCall
    \/ \E i \in 1..Len(chunks) : RebindMetadataValue(i)
    \/ \E i \in 1..Len(chunks) : AppendToNestedValue(i)

Spec == Init /\ [][Next]_vars

\* The loop of chunk_text_fixed_size is scheduled until it ends
FairSpec == Spec /\ WF_vars(FixedSizeIterate) /\ WF_vars(FixedSizeReturn)

\* ------------------------------------------------------------------------
\* load_document and the format loaders (rag/data_ingestion)
\* ------------------------------------------------------------------------

LowerLetters == << "a", "b", "c", "d", "e", "f", "g", "h", "i", "j", "k", "l", "m",
                   "n", "o", "p", "q", "r", "s", "t", "u", "v", "w", "x", "y", "z" >>
UpperLetters == << "A", "B", "C", "D", "E", "F", "G", "H", "I", "J", "K", "L", "M",
                   "N", "O", "P", "Q", "R", "S", "T", "U", "V", "W", "X", "Y", "Z" >>

\* str.lower() and str.upper() of one character
LowerChar(c) ==
    IF \E i \in 1..26 : UpperLetters[i] = c
    THEN LowerLetters[CHOOSE i \in 1..26 : UpperLetters[i] = c]
    ELSE c
UpperChar(c) ==
    IF \E i \in 1..26 : LowerLetters[i] = c
    THEN UpperLetters[CHOOSE i \in 1..26 : LowerLetters[i] = c]
    ELSE c

\* A slip: the extension is compared as it was given
Normalized_AsGiven(ext) == ext

\* file_extension = file_extension.lower()
Normalized(ext) == [i \in 1..Len(ext) |-> LowerChar(ext[i])]

PdfExtensions == { << ".", "p", "d", "f" >> }
DocxExtensions == { << ".", "d", "o", "c", "x" >>, << ".", "d", "o", "c" >> }
TextExtensions == { << ".", "t", "x", "t" >>, << ".", "m", "d" >>, << ".", "r", "t", "f" >> }
HtmlExtensions == { << ".", "h", "t", "m", "l" >>, << ".", "h", "t", "m" >> }
CsvExtensions == { << ".", "c", "s", "v" >> }
JsonExtensions == { << ".", "j", "s", "o", "n" >> }

KnownExtensions ==
    PdfExtensions \cup DocxExtensions \cup TextExtensions \cup HtmlExtensions
        \cup CsvExtensions \cup JsonExtensions

\* An extension no branch names, and the extension of a path without one
OtherExtensions == { << ".", "x", "y" >>, <<>> }

\* An extension in every letter case
RECURSIVE CaseVariants(_)
CaseVariants(ext) ==
    IF ext = <<>> THEN { <<>> }
    ELSE { << c >> \o v : c \in {Head(ext), UpperChar(Head(ext))},
                          v \in CaseVariants(Tail(ext)) }

\* The extensions of the paths load_document is called with
Extensions == UNION { CaseVariants(e) : e \in KnownExtensions \cup OtherExtensions }

\* The if/elif chain of load_document: the loader an extension is sent to
PipelineOf(ext) ==
    IF ext \in PdfExtensions THEN "pdf"
    ELSE IF ext \in DocxExtensions THEN "docx"
    ELSE IF ext \in TextExtensions THEN "text"
    ELSE IF ext \in HtmlExtensions THEN "html"
    ELSE IF ext \in CsvExtensions THEN "csv"
    ELSE IF ext \in JsonExtensions THEN "json"
    ELSE "text"

\* The first stage of each loader
FirstStage(pipeline) ==
    CASE pipeline = "pdf" -> "pdf_ocr"
      [] pipeline = "docx" -> "docx_unstructured"
      [] pipeline = "text" -> "text"
      [] pipeline = "html" -> "html"
      [] pipeline = "csv" -> "csv_reader"
      [] pipeline = "json" -> "json"

\* The stages of each loader, in the order they are tried
Stages(pipeline) ==
    CASE pipeline = "pdf" -> << "pdf_ocr", "pdf_unstructured", "pdf_pypdf" >>
      [] pipeline = "docx" -> << "docx_unstructured", "docx_docx2txt", "docx_python_docx" >>
      [] pipeline = "text" -> << "text" >>
      [] pipeline = "html" -> << "html" >>
      [] pipeline = "csv" -> << "csv_reader", "csv_pandas" >>
      [] pipeline = "json" -> << "json" >>

\* A backend is called and does o
Invoke(stage, o) == invoked' = Append(invoked, [stage |-> stage, outcome |-> o])

\* The loader returns r; load_document adds the loader's metadata to its own
\* and returns
Return(r) ==
    /\ lpc' = "returned"
    /\ result' = [text |-> r.text, metadata |-> r.metadata,
                  file_extension |-> Normalized(file_extension)]

\* The loader goes on to another stage
Advance(stage) ==
    /\ lpc' = stage
    /\ UNCHANGED result

\* What a single-stage loader, or the last stage of a loader, returns: the
\* text with its metadata, or the failure result when the backend raised
TextOrFailure(fmt, stage, o) ==
    IF o.kind = "text" THEN StageResult(fmt, stage, o.text)
    ELSE FailureResult(fmt, o.error)

\* load_document up to the call of the loader; os.path.getsize raises when
\* the path names no file
LoadDocument ==
    /\ lpc = "call"
    /\ IF file_exists
       THEN lpc' = FirstStage(PipelineOf(Normalized(file_extension)))
       ELSE lpc' = "raised"
    /\ UNCHANGED << file_extension, file_exists, invoked, result, chunkVars, procVars, auxVars >>

\* load_pdf_with_ocr: never raises
LoadPdfWithOcr(o) == TextOrFailure("pdf", "pdf_ocr", o)

\* load_pdf, first stage: OCR
LoadPdfOcr ==
    /\ lpc = "pdf_ocr"
    /\ \E o \in BackendOutcomes("pdf_ocr") :
          /\ Invoke("pdf_ocr", o)
          /\ IF Gate(LoadPdfWithOcr(o).text)
             THEN Return(LoadPdfWithOcr(o))
             ELSE Advance("pdf_unstructured")
    /\ UNCHANGED << file_extension, file_exists, chunkVars, procVars, auxVars >>

\* load_pdf, second stage: UnstructuredPDFLoader
LoadPdfUnstructured ==
    /\ lpc = "pdf_unstructured"
    /\ \E o \in BackendOutcomes("pdf_unstructured") :
          /\ Invoke("pdf_unstructured", o)
          /\ IF o.kind = "text" /\ Gate(o.text)
             THEN Return(StageResult("pdf", "pdf_unstructured", o.text))
             ELSE Advance("pdf_pypdf")
    /\ UNCHANGED << file_extension, file_exists, chunkVars, procVars, auxVars >>

\* load_pdf_with_pypdf up to its return or its except clauses
LoadPdfWithPypdf ==
    /\ lpc = "pdf_pypdf"
    /\ \E o \in BackendOutcomes("pdf_pypdf") :
          /\ Invoke("pdf_pypdf", o)
          /\ IF o.kind = "text"
             THEN Return(StageResult("pdf", "pdf_pypdf", o.text))
             ELSE Advance("pdf_pypdf_ocr")
    /\ UNCHANGED << file_extension, file_exists, chunkVars, procVars, auxVars >>

\* The except clauses of load_pdf_with_pypdf: return load_pdf_with_ocr(file_path)
LoadPdfWithPypdfFallback ==
    /\ lpc = "pdf_pypdf_ocr"
    /\ \E o \in BackendOutcomes("pdf_ocr") :
          /\ Invoke("pdf_ocr", o)
          /\ Return(LoadPdfWithOcr(o))
    /\ UNCHANGED << file_extension, file_exists, chunkVars, procVars, auxVars >>

\* load_docx: UnstructuredWordDocumentLoader
LoadDocx ==
    /\ lpc = "docx_unstructured"
    /\ \E o \in BackendOutcomes("docx_unstructured") :
          /\ Invoke("docx_unstructured", o)
          /\ IF o.kind = "text"
             THEN Return(StageResult("docx", "docx_unstructured", o.text))
             ELSE Advance("docx_docx2txt")
    /\ UNCHANGED << file_extension, file_exists, chunkVars, procVars, auxVars >>

LoadDocxWithDocx2txt ==
    /\ lpc = "docx_docx2txt"
    /\ \E o \in BackendOutcomes("docx_docx2txt") :
          /\ Invoke("docx_docx2txt", o)
          /\ IF o.kind = "text"
             THEN Return(StageResult("docx", "docx_docx2txt", o.text))
             ELSE Advance("docx_python_docx")
    /\ UNCHANGED << file_extension, file_exists, chunkVars, procVars, auxVars >>

LoadDocxWithPythonDocx ==
    /\ lpc = "docx_python_docx"
    /\ \E o \in BackendOutcomes("docx_python_docx") :
          /\ Invoke("docx_python_docx", o)
          /\ Return(TextOrFailure("docx", "docx_python_docx", o))
    /\ UNCHANGED << file_extension, file_exists, chunkVars, procVars, auxVars >>

LoadText ==
    /\ lpc = "text"
    /\ \E o \in BackendOutcomes("text") :
          /\ Invoke("text", o)
          /\ Return(TextOrFailure("text", "text", o))
    /\ UNCHANGED << file_extension, file_exists, chunkVars, procVars, auxVars >>

LoadHtml ==
    /\ lpc = "html"
    /\ \E o \in BackendOutcomes("html") :
          /\ Invoke("html", o)
          /\ Return(TextOrFailure("html", "html", o))
    /\ UNCHANGED << file_extension, file_exists, chunkVars, procVars, auxVars >>

\* load_csv: csv.reader; the text "" stands for a file without rows
LoadCsv ==
    /\ lpc = "csv_reader"
    /\ \E o \in BackendOutcomes("csv_reader") :
          /\ Invoke("csv_reader", o)
          /\ IF o.kind = "text"
             THEN Return(StageResult("csv", "csv_reader", o.text))
             ELSE Advance("csv_pandas")
    /\ UNCHANGED << file_extension, file_exists, chunkVars, procVars, auxVars >>

\* load_csv_with_pandas: never raises; the text of csv_to_text is never empty
LoadCsvWithPandas ==
    /\ lpc = "csv_pandas"
    /\ \E o \in BackendOutcomes("csv_pandas") \ {Returned(EmptyText)} :
          /\ Invoke("csv_pandas", o)
          /\ Return(TextOrFailure("csv", "csv_pandas", o))
    /\ UNCHANGED << file_extension, file_exists, chunkVars, procVars, auxVars >>

LoadJson ==
    /\ lpc = "json"
    /\ \E o \in BackendOutcomes("json") :
          /\ Invoke("json", o)
          /\ Return(TextOrFailure("json", "json", o))
    /\ UNCHANGED << file_extension, file_exists, chunkVars, procVars, auxVars >>

\* ------------------------------------------------------------------------
\* The ingest route and process_document (app/routes, app/services)
\* ------------------------------------------------------------------------

\* supported_extensions of the ingest route
SupportedExtensions == KnownExtensions

\* How many chunks of one document the model tells apart
MaxStored == 2

\* One call process_document made: the function, its first argument that
\* matters, the message passed along, and how the call ended
Called(call, arg, message, outcome) ==
    [call |-> call, arg |-> arg, message |-> message, outcome |-> outcome]

\* The entry of trace for update_document_status(doc_id, status, message): an
\* exception inside it is logged and not raised
StatusCall(new_status, message) ==
    Called("update_document_status", new_status, message,
           IF writable THEN "written" ELSE "logged")

\* update_document_status(doc_id, status, message): document["status"] = status
\* is written to the metadata file; message is not stored. When the file
\* cannot be read or rewritten the except clause logs, and nothing changes
UpdateDocumentStatus(new_status, message) ==
    IF writable
    THEN /\ status' = new_status
         /\ written' = Append(written, new_status)
    ELSE UNCHANGED << status, written >>

\* The content of the metadata file, without the fields that are written at
\* upload and never changed (id, filename, content_type, upload_time, size_bytes)
Document == [status |-> status, chunk_count |-> chunk_count]

\* The ingest route for one uploaded file: an unsupported extension is
\* answered with 400; else the file is saved under the lower-cased extension,
\* the metadata file is written with status "uploaded" and process_document
\* is added to the background tasks
IngestDocument ==
    /\ ppc = "request"
    /\ IF Normalized(file_extension) \in SupportedExtensions
       THEN /\ file_extension' = Normalized(file_extension)
            /\ status' = "uploaded"
            /\ written' = Append(written, "uploaded")
            /\ ppc' = "queued"
       ELSE /\ ppc' = "rejected"
            /\ UNCHANGED << file_extension, status, written >>
    /\ UNCHANGED << file_exists, lpc, invoked, result, chunk_count, writable, trace,
                    chunkVars, auxVars >>

\* process_document up to the call of load_document
ProcessDocument ==
    /\ ppc = "queued"
    /\ UpdateDocumentStatus("processing", "Loading document")
    /\ trace' = Append(trace, StatusCall("processing", "Loading document"))
    /\ ppc' = "loading"
    /\ lpc' = "call"
    /\ UNCHANGED << file_extension, file_exists, invoked, result, chunk_count, writable,
                    chunkVars, auxVars >>

\* load_document has returned or raised: if not text, or the except clause
ProcessDocumentLoaded ==
    /\ ppc = "loading"
    /\ lpc \in {"returned", "raised"}
    /\ IF lpc = "raised"
       THEN /\ UpdateDocumentStatus("error", "Error")
            /\ trace' = trace \o << Called("load_document", "", "", "raised"),
                                    StatusCall("error", "Error") >>
            /\ ppc' = "done"
       ELSE IF result.text = EmptyText
       THEN /\ UpdateDocumentStatus("error", "Failed to extract text from document")
            /\ trace' = trace \o
                  << Called("load_document", "", "", "empty"),
                     StatusCall("error", "Failed to extract text from document") >>
            /\ ppc' = "done"
       ELSE /\ UpdateDocumentStatus("processing", "Chunking text")
            /\ trace' = trace \o << Called("load_document", "", "", "text"),
                                    StatusCall("processing", "Chunking text") >>
            /\ ppc' = "chunking"
    /\ UNCHANGED << loadVars, chunk_count, writable, chunkVars, auxVars >>

\* chunk_text(text, 512, 50, metadata, "sentence") returns no chunk exactly for a
\* text that is blank once stripped: if not chunks. An exception of the call
\* reaches the except clause of process_document
ProcessDocumentChunked ==
    /\ ppc = "chunking"
    /\ \E raised \in BOOLEAN :
          IF raised
          THEN /\ UpdateDocumentStatus("error", "Error")
               /\ trace' = trace \o << Called("chunk_text", "", "", "raised"),
                                       StatusCall("error", "Error") >>
               /\ ppc' = "done"
          ELSE IF TrimmedLen(result.text) = 0
          THEN /\ UpdateDocumentStatus("error", "Failed to create chunks from document")
               /\ trace' = trace \o
                     << Called("chunk_text", "", "", "none"),
                        StatusCall("error", "Failed to create chunks from document") >>
               /\ ppc' = "done"
          ELSE /\ UpdateDocumentStatus("processing", "Generating embeddings")
               /\ trace' = trace \o
                     << Called("chunk_text", "", "", "chunks"),
                        StatusCall("processing", "Generating embeddings") >>
               /\ ppc' = "embedding"
    /\ UNCHANGED << loadVars, chunk_count, writable, chunkVars, auxVars >>

\* How get_embedder() and store_chunks(chunks, doc_id, document_name, embedder)
\* can end
StorageOutcomes == {"stored", "get_embedder raised", "store_chunks raised"}

\* The calls made for one of these outcomes
StorageCalls(outcome) ==
    CASE outcome = "stored" ->
            << Called("get_embedder", "", "", "returned"),
               Called("store_chunks", "", "", "returned") >>
      [] outcome = "get_embedder raised" ->
            << Called("get_embedder", "", "", "raised") >>
      [] outcome = "store_chunks raised" ->
            << Called("get_embedder", "", "", "returned"),
               Called("store_chunks", "", "", "raised") >>

\* A slip: "completed" is written whatever storage did
StatusAfterStorage_Completed(outcome) == "completed"

\* The status written next: "completed" after store_chunks has returned, "error"
\* by the except clause
StatusAfterStorage(outcome) == IF outcome = "stored" THEN "completed" ELSE "error"

\* get_embedder and store_chunks return and "completed" is written, then
\* chunk_count in a try of its own; or one of the two raises and the except
\* clause of process_document runs
ProcessDocumentStored ==
    /\ ppc = "embedding"
    /\ \E outcome \in StorageOutcomes, n \in 1..MaxStored :
          /\ outcome # "stored" => n = 1
          /\ LET message == IF outcome = "stored" THEN "Processed chunks" ELSE "Error"
             IN  /\ UpdateDocumentStatus(StatusAfterStorage(outcome), message)
                 /\ trace' = trace \o StorageCalls(outcome)
                                   \o << StatusCall(StatusAfterStorage(outcome), message) >>
          /\ chunk_count' = IF outcome = "stored" /\ writable THEN n ELSE chunk_count
    /\ ppc' = "done"
    /\ UNCHANGED << loadVars, writable, chunkVars, auxVars >>

\* The metadata file stops being readable or writable while the task runs
MetadataFileFails ==
    /\ ppc \in {"queued", "loading", "chunking", "embedding"}
    /\ writable
    /\ writable' = FALSE
    /\ UNCHANGED << loadVars, ppc, status, written, chunk_count, trace, chunkVars, auxVars >>

\* The task is ended from outside between two of its statements: CancelledError,
\* KeyboardInterrupt and SystemExit are no Exception, so neither except clause
\* of process_document runs
ProcessDocumentCancelled ==
    /\ ppc \in {"loading", "chunking", "embedding"}
    /\ lpc = "returned"
    /\ ppc' = "done"
    /\ UNCHANGED << loadVars, status, written, chunk_count, writable, trace,
                    chunkVars, auxVars >>

\* load_document is called with a path of any of the extensions, that names a
\* file or not; or a file of any of the extensions is uploaded to the ingest
\* route, and the saved file may be gone by the time it is processed
IngestInit ==
    /\ ChunkIdle
    /\ file_extension \in Extensions
    /\ file_exists \in BOOLEAN
    /\ invoked = <<>>
    /\ result = NoResult
    /\ status = "none"
    /\ written = <<>>
    /\ chunk_count = None
    /\ writable = TRUE
    /\ trace = <<>>
    /\ FnIdle
    /\ TaskIdle
    /\ \/ lpc = "call" /\ ppc = "idle"
       \/ lpc = "idle" /\ ppc = "request"

IngestNext ==
    \/ LoadDocument
    \/ LoadPdfOcr
    \/ LoadPdfUnstructured
    \/ LoadPdfWithPypdf
    \/ LoadPdfWithPypdfFallback
    \/ LoadDocx
    \/ LoadDocxWithDocx2txt
    \/ LoadDocxWithPythonDocx
    \/ LoadText
    \/ LoadHtml
    \/ LoadCsv
    \/ LoadCsvWithPandas
    \/ LoadJson
    \/ IngestDocument
    \/ ProcessDocument
    \/ ProcessDocumentLoaded
    \/ ProcessDocumentChunked
    \/ ProcessDocumentStored

IngestSpec == IngestInit /\ [][IngestNext]_vars

\* The ingestion of one document where the metadata file may fail and the task
\* may be ended from outside
FaultNext ==
    \/ LoadDocument
    \/ LoadPdfOcr
    \/ LoadPdfUnstructured
    \/ LoadPdfWithPypdf
    \/ LoadPdfWithPypdfFallback
    \/ LoadDocx
    \/ LoadDocxWithDocx2txt
    \/ LoadDocxWithPythonDocx
    \/ LoadText
    \/ LoadHtml
    \/ LoadCsv
    \/ LoadCsvWithPandas
    \/ LoadJson
    \/ IngestDocument
    \/ ProcessDocument
    \/ ProcessDocumentLoaded
    \/ ProcessDocumentChunked
    \/ ProcessDocumentStored
    \/ MetadataFileFails
    \/ ProcessDocumentCancelled

FaultSpec == IngestInit /\ [][FaultNext]_vars

\* ------------------------------------------------------------------------
\* json_to_text
\* ------------------------------------------------------------------------

\* How many times a JSON value is wrapped into a further container
MaxDepth == 6

\* max_depth: int = 5
DefaultMaxDepth == 5

\* JSON values as json.load returns them: str/int/float/bool/None, dict, list
Scalar(value) == [kind |-> "scalar", value |-> value, items |-> <<>>]

\* A dict: its items in the order of data.items()
Dict(items) == [kind |-> "dict", value |-> "", items |-> items]

\* A list: its items in order, each under the key ""
List(items) ==
    [kind |-> "list", value |-> "",
     items |-> [i \in 1..Len(items) |-> [key |-> "", value |-> items[i]]]]

Item(key, value) == [key |-> key, value |-> value]

\* isinstance(value, (dict, list))
IsContainer(value) == value.kind \in {"dict", "list"}

\* One line of the returned text: the call that wrote it (its current_depth,
\* its prefix counted in indentation steps), what it holds
Line(kind, prefix, current_depth, key, index, values) ==
    [kind |-> kind, prefix |-> prefix, depth |-> current_depth, key |-> key,
     index |-> index, values |-> values]

\* A slip: the recursion stops one level later
Truncated_Beyond(current_depth, max_depth) == current_depth > max_depth

\* if current_depth >= max_depth
Truncated(current_depth, max_depth) == current_depth >= max_depth

\* len(data) <= 10 and all(not isinstance(item, (dict, list)) for item in data)
Condensed(data) ==
    /\ Len(data.items) <= 10
    /\ \A i \in 1..Len(data.items) : ~IsContainer(data.items[i].value)

RECURSIVE JsonToText(_, _, _, _), DictLines(_, _, _, _, _), ListLines(_, _, _, _, _)

\* for key, value in data.items(): "key:" and the nested rendering, or "key: value"
DictLines(items, k, prefix, max_depth, current_depth) ==
    IF k > Len(items) THEN <<>>
    ELSE LET key == items[k].key
             value == items[k].value
             lines == IF IsContainer(value)
                      THEN << Line("key", prefix, current_depth, key, None, <<>>) >>
                           \o JsonToText(value, prefix + 1, max_depth, current_depth + 1)
                      ELSE << Line("pair", prefix, current_depth, key, None,
                                   << value.value >>) >>
         IN  lines \o DictLines(items, k + 1, prefix, max_depth, current_depth)

\* for i, item in enumerate(data): "Item i:" and the nested rendering, or
\* "Item i: item"
ListLines(items, k, prefix, max_depth, current_depth) ==
    IF k > Len(items) THEN <<>>
    ELSE LET item == items[k].value
             lines == IF IsContainer(item)
                      THEN << Line("key", prefix, current_depth, "Item", k - 1, <<>>) >>
                           \o JsonToText(item, prefix + 1, max_depth, current_depth + 1)
                      ELSE << Line("pair", prefix, current_depth, "Item", k - 1,
                                   << item.value >>) >>
         IN  lines \o ListLines(items, k + 1, prefix, max_depth, current_depth)

\* json_to_text(data, prefix, max_depth, current_depth): the lines of the
\* returned text
JsonToText(data, prefix, max_depth, current_depth) ==
    IF Truncated(current_depth, max_depth)
    THEN << Line("truncated", prefix, current_depth, "", None, <<>>) >>
    ELSE IF data.kind = "dict"
    THEN DictLines(data.items, 1, prefix, max_depth, current_depth)
    ELSE IF data.kind = "list"
    THEN IF Condensed(data)
         THEN << Line("condensed", prefix, current_depth, "", None,
                      [i \in 1..Len(data.items) |-> data.items[i].value.value]) >>
         ELSE ListLines(data.items, 1, prefix, max_depth, current_depth)
    ELSE << Line("scalar", prefix, current_depth, "", None, << data.value >>) >>

\* A list of eleven scalars: one more than the condensed form takes
LongList == List([i \in 1..11 |-> Scalar("s")])

\* The innermost values
JsonLeaves ==
    { Scalar("s"), Dict(<<>>), List(<<>>), List(<< Scalar("s"), Scalar("t") >>), LongList }

\* A value one container further out
JsonWraps(v) ==
    { Dict(<< Item("k", v) >>),
      List(<< v >>),
      Dict(<< Item("a", Scalar("s")), Item("k", v),
              Item("l", List(<< Scalar("t"), v >>)) >>) }

\* JSON documents of nesting depth up to n and more
RECURSIVE JsonValues(_)
JsonValues(n) ==
    IF n = 0 THEN JsonLeaves
    ELSE LET inner == JsonValues(n - 1)
         IN  inner \cup UNION { JsonWraps(v) : v \in inner }

\* ------------------------------------------------------------------------
\* Functions called on their own
\* ------------------------------------------------------------------------

\* The separators a level of _recursive_chunk works with: separators[i + 1:]
RECURSIVE SeparatorTails(_)
SeparatorTails(seps) ==
    IF seps = <<>> THEN {} ELSE {seps} \cup SeparatorTails(Tail(seps))

\* The overlap handling of _recursive_chunk for an emitted buffer
OverlapArgs ==
    [fn : {"overlap_text"}, chunk_text : TextsUpTo(MaxLen) \ { <<>> },
     separators : SeparatorTails(Separators), chunk_overlap : 0..MaxOverlap]

\* json_to_text(data) as load_json calls it, for documents wrapped up to n times
JsonArgs(n) == [fn : {"json_to_text"}, data : JsonValues(n)]

FnInit ==
    /\ ChunkIdle
    /\ LoadIdle
    /\ ProcIdle
    /\ TaskIdle
    /\ fpc = "call"
    /\ fargs \in OverlapArgs \cup JsonArgs(MaxDepth)
    /\ fret = <<>>

\* The buffer is emitted and the next one is seeded
CallOverlapText ==
    /\ fpc = "call"
    /\ fargs.fn = "overlap_text"
    /\ fret' = OverlapText(fargs.chunk_text, fargs.separators, fargs.chunk_overlap)
    /\ fpc' = "done"
    /\ UNCHANGED << fargs, chunkVars, ingestVars, taskVars >>

\* text = json_to_text(data)
CallJsonToText ==
    /\ fpc = "call"
    /\ fargs.fn = "json_to_text"
    /\ fret' = JsonToText(fargs.data, 0, DefaultMaxDepth, 0)
    /\ fpc' = "done"
    /\ UNCHANGED << fargs, chunkVars, ingestVars, taskVars >>

FnNext ==
    \/ CallOverlapText
    \/ CallJsonToText

FnSpec == FnInit /\ [][FnNext]_vars

\* ------------------------------------------------------------------------
\* The background tasks of several documents and their metadata files
\* ------------------------------------------------------------------------

\* How many documents are uploaded
NumTasks == 2

\* The uploads, in order; each adds one process_document task
Tasks == 1..NumTasks

\* A slip: every upload is given the same id
DocIdOf_Same(task) == 1

\* doc_id = str(uuid.uuid4()): the id of the document of an upload, which is
\* the doc_id its task is started with
DocIdOf(task) == task

\* The metadata file as the ingest route writes it
UploadedDocument == [status |-> "uploaded", chunk_count |-> None]

\* document["status"] = status, between the read and the write of
\* update_document_status
StatusUpdate(new_status) ==
    [field |-> "status", status |-> new_status, chunk_count |-> None]

\* metadata_json["chunk_count"] = len(chunks), between the read and the write
\* at the end of process_document
ChunkCountUpdate(n) == [field |-> "chunk_count", status |-> "", chunk_count |-> n]

\* The changed JSON document that is written back
Updated(document, update) ==
    IF update.field = "status"
    THEN [document EXCEPT !.status = update.status]
    ELSE [document EXCEPT !.chunk_count = update.chunk_count]

\* The read-modify-write updates one process_document run makes, in order: it
\* ends at the first error, or with "completed" and the chunk count
TaskRuns ==
    { << StatusUpdate("processing"), StatusUpdate("error") >>,
      << StatusUpdate("processing"), StatusUpdate("processing"), StatusUpdate("error") >>,
      << StatusUpdate("processing"), StatusUpdate("processing"),
         StatusUpdate("processing"), StatusUpdate("error") >> }
    \cup { << StatusUpdate("processing"), StatusUpdate("processing"),
              StatusUpdate("processing"), StatusUpdate("completed"),
              ChunkCountUpdate(n) >> : n \in 1..MaxStored }

\* Each upload has written its metadata file and queued its task
TaskInit ==
    /\ ChunkIdle
    /\ LoadIdle
    /\ ProcIdle
    /\ FnIdle
    /\ files = [d \in Tasks |-> UploadedDocument]
    /\ tpc \in [Tasks -> [todo : TaskRuns, phase : {"read"}, applied : { <<>> }]]
    /\ local = [t \in Tasks |-> UploadedDocument]

\* with open(metadata_path, "r") as f: document = json.load(f)
TaskRead(t) ==
    /\ tpc[t].phase = "read"
    /\ tpc[t].todo # <<>>
    /\ local' = [local EXCEPT ![t] = files[DocIdOf(t)]]
    /\ tpc' = [tpc EXCEPT ![t].phase = "write"]
    /\ UNCHANGED << files, chunkVars, ingestVars, fnVars >>

\* the field is set and: with open(metadata_path, "w") as f: json.dump(...)
TaskWrite(t) ==
    /\ tpc[t].phase = "write"
    /\ files' = [files EXCEPT ![DocIdOf(t)] = Updated(local[t], Head(tpc[t].todo))]
    /\ tpc' = [tpc EXCEPT ![t] = [todo |-> Tail(tpc[t].todo), phase |-> "read",
                                  applied |-> Append(tpc[t].applied, Head(tpc[t].todo))]]
    /\ UNCHANGED << local, chunkVars, ingestVars, fnVars >>

TaskNext ==
    \E t \in Tasks :
        \/ TaskRead(t)
        \/ TaskWrite(t)

TaskSpec == TaskInit /\ [][TaskNext]_vars

\* ------------------------------------------------------------------------
\* Properties
\* ------------------------------------------------------------------------

\* The texts of the chunks, in list order
ChunkTexts == [i \in 1..Len(chunks) |-> chunks[i].text]

\* ceil(a / b) for b >= 1
CeilDiv(a, b) == (a + b - 1) \div b

IsPrefix(p, s) == Len(p) <= Len(s) /\ SubSeq(s, 1, Len(p)) = p

\* C1: whenever chunk_overlap >= chunk_size the configuration is clamped or
\* rejected before segmenting, so in every iteration of the fixed_size window
\* loop the step chunk_size - chunk_overlap is > 0.
C1_WindowStepPositive ==
    (pc = "fixed_size" /\ args.chunk_size # None /\ args.chunk_overlap >= args.chunk_size)
    => chunk_size - chunk_overlap > 0

\* C2: for each strategy, a text that is empty or only whitespace yields the
\* empty chunk list and no exception.
C2_BlankTextYieldsNoChunks ==
    (Strip(args.text) = <<>> /\ pc # "call") => (pc = "done" /\ chunks = <<>>)

\* C3: with 0 <= chunk_overlap < chunk_size no strategy raises on any text,
\* a separator-free run longer than chunk_size in the recursive strategy
\* included.
C3_NeverRaises ==
    (pc # "call" /\ 0 <= chunk_overlap /\ chunk_overlap < chunk_size) => pc # "raised"

\* C4: the chunk_index values of the returned chunks, in list order, are
\* exactly 0, 1, ..., n-1, for every strategy and input.
C4_IndicesSequential ==
    pc = "done" => \A i \in 1..Len(chunks) : chunks[i].metadata["chunk_index"] = i - 1

\* A recursive call whose first piece went through a nested call that
\* returned two chunks, followed by one more chunk of the outer call
C4_NestedRecursionReturned ==
    /\ pc = "done"
    /\ touched = 0
    /\ args.strategy = "recursive"
    /\ args.text = << "a", " ", "a", "\n" >>
    /\ chunk_size = 2
    /\ chunk_overlap = 1
    /\ Len(chunks) = 3

\* C5: for every non-empty text and chunk_size >= 1, fixed_size chunking with
\* overlap = 0 produces ceil(len(text) / chunk_size) chunks whose texts,
\* concatenated in index order, equal the text.  Stated for the texts that
\* stripping leaves alone: the loop never holds more chunks than that, and
\* the returned list has exactly that many and concatenates to the text.
C5_ZeroOverlapReconstructs ==
    ( /\ args.strategy = "fixed_size"
      /\ args.chunk_overlap = 0
      /\ args.chunk_size >= 1
      /\ args.text # <<>>
      /\ Strip(args.text) = args.text )
    => /\ pc = "fixed_size" => Len(chunks) <= CeilDiv(Len(args.text), args.chunk_size)
       /\ pc = "done" => /\ Len(chunks) = CeilDiv(Len(args.text), args.chunk_size)
                         /\ Concat(ChunkTexts) = args.text

\* Window of the i-th returned chunk (i = 1, 2, ...) of fixed_size, as 0-based
\* offsets [from, to) into the stripped text
C6_From(i) == (i - 1) * (chunk_size - chunk_overlap)
C6_To(i) == Min(C6_From(i) + chunk_size, Len(text))
\* Number of characters the windows of chunk i and chunk i + 1 have in common
C6_Shared(i) == Max(0, C6_To(i) - C6_From(i + 1))

\* C6 as stated: for consecutive chunks i, i+1 of fixed_size the shared text
\* has length min(chunk_overlap, chunk_size), except possibly where chunk
\* i+1 is the final chunk.
C6_SharedIsOverlapUnlessFinal ==
    (pc = "done" /\ args.strategy = "fixed_size")
    => \A i \in 1..(Len(chunks) - 2) : C6_Shared(i) = Min(chunk_overlap, chunk_size)

\* What the window loop does return: every chunk is its window of the text;
\* consecutive chunks i, i+1 share len(chunk i) - (chunk_size - chunk_overlap)
\* characters, which is min(chunk_overlap, chunk_size) whenever chunk i has
\* the full length chunk_size; every chunk cut short by the end of the text,
\* not only the one before the final chunk, shares less.
C6_SharedIsOverlapWhenFull ==
    (pc = "done" /\ args.strategy = "fixed_size")
    => /\ \A i \in 1..Len(chunks) :
             chunks[i].text = SubSeq(text, C6_From(i) + 1, C6_To(i))
       /\ \A i \in 1..(Len(chunks) - 1) :
             /\ C6_Shared(i) = Len(chunks[i].text) - (chunk_size - chunk_overlap)
             /\ Len(chunks[i].text) = chunk_size
                => C6_Shared(i) = Min(chunk_overlap, chunk_size)
             /\ SubSeq(chunks[i].text, Len(chunks[i].text) - C6_Shared(i) + 1,
                       Len(chunks[i].text))
                = SubSeq(chunks[i + 1].text, 1, C6_Shared(i))

\* A returned list with a full-length chunk and a cut-short chunk, each
\* followed by a chunk that is not the final one
C6_FullAndCutShortPairs ==
    /\ pc = "done"
    /\ args.strategy = "fixed_size"
    /\ chunk_overlap > 0
    /\ \E i \in 1..(Len(chunks) - 2) : Len(chunks[i].text) = chunk_size
    /\ \E i \in 1..(Len(chunks) - 2) : Len(chunks[i].text) < chunk_size

\* A text with no separator of the hierarchy in it: a single word
C7_IsAtomic(t) ==
    \A k \in 1..Len(Separators) :
        Separators[k] # <<>> => ~Contains(t, Separators[k])

\* C7: in the recursive strategy every emitted chunk has length <= chunk_size
\* unless it is an atomic unit that by itself exceeds chunk_size; a buffer
\* seeded with overlap text and extended by the next piece included.
C7_RecursiveChunksBounded ==
    (pc = "done" /\ args.strategy = "recursive" /\ chunk_overlap < chunk_size)
    => \A i \in 1..Len(chunks) :
          Len(chunks[i].text) <= chunk_size \/ C7_IsAtomic(chunks[i].text)

\* What a reader of the metadata of the j-th chunk sees: nested values are
\* read through their address
C8_View(j) ==
    [k \in DOMAIN chunks[j].metadata |->
        IF k \in RefKeys THEN heap[chunks[j].metadata[k]] ELSE chunks[j].metadata[k]]

\* C8: a mutation of any value in one chunk's metadata, nested values
\* included, is never observable in the metadata of another chunk of the
\* same call.
C8_MetadataIsolated ==
    [][\A i \in 1..Len(chunks) :
          (RebindMetadataValue(i) \/ AppendToNestedValue(i))
          => \A j \in (1..Len(chunks)) \ {i} : C8_View(j)' = C8_View(j)]_vars

C9_AllWithin(units, n) == \A k \in 1..Len(units) : Len(units[k]) <= n

\* C9: for paragraph and sentence with chunk_overlap < chunk_size, when no
\* single paragraph/sentence is longer than chunk_size every returned chunk
\* has length <= chunk_size.
C9_ChunkSizeIsMaximum ==
    ( /\ pc = "done"
      /\ chunk_overlap < chunk_size
      /\ \/ args.strategy = "paragraph" /\ C9_AllWithin(Paragraphs(args.text), chunk_size)
         \/ args.strategy = "sentence" /\ C9_AllWithin(Sentences(args.text), chunk_size) )
    => C9_AllWithin(ChunkTexts, chunk_size)

\* The longest run of whole trailing units whose cumulative length is <= n
RECURSIVE C10_TrailingUnits(_, _)
C10_TrailingUnits(units, n) ==
    IF units = <<>> \/ Len(units[Len(units)]) > n THEN <<>>
    ELSE Append(C10_TrailingUnits(SubSeq(units, 1, Len(units) - 1),
                                  n - Len(units[Len(units)])),
                units[Len(units)])

\* The tail of prev a following chunk has to begin with
C10_Tail(prev, n) ==
    IF C10_TrailingUnits(Sentences(prev), n) # <<>>
    THEN Join(C10_TrailingUnits(Sentences(prev), n), << " " >>)
    ELSE PySliceFrom(prev, 0 - n)

\* C10: the sample call (sentence strategy, chunk_size 20, chunk_overlap 5)
\* produces more than one chunk, each of length <= 20, and each chunk after
\* the first begins with a tail of the previous chunk: whole trailing
\* sentences when they fit within 5 characters, else its last 5 characters.
C10_SampleOverlapsTail ==
    (pc = "done" /\ args = SampleCall)
    => /\ Len(chunks) > 1
       /\ C9_AllWithin(ChunkTexts, SampleSize)
       /\ \A i \in 2..Len(chunks) :
             IsPrefix(C10_Tail(chunks[i - 1].text, SampleOverlap), chunks[i].text)

\* Whether the chunk texts cs, from the i-th on, spell out rest once a prefix
\* of each that is a tail of its predecessor is removed (nothing is removed
\* from the first)
RECURSIVE C11_Spells(_, _, _)
C11_Spells(cs, i, rest) ==
    IF i > Len(cs) THEN rest = <<>>
    ELSE \E p \in 0..(IF i = 1 THEN 0 ELSE Min(Len(cs[i]), Len(cs[i - 1]))) :
            /\ p > 0 => SubSeq(cs[i], 1, p) = PySliceFrom(cs[i - 1], Len(cs[i - 1]) - p)
            /\ IsPrefix(SubSeq(cs[i], p + 1, Len(cs[i])), rest)
            /\ C11_Spells(cs, i + 1, SubSeq(rest, Len(cs[i]) - p + 1, Len(rest)))

\* C11: the chunks the recursive strategy returns, concatenated in order after
\* removing from each the overlap prefix copied from its predecessor, are the
\* input text: every split piece but the positionally last one got its
\* separator back.  Stated for texts that stripping leaves alone and an
\* explicit overlap with 0 < chunk_overlap < chunk_size.
C11_RecursiveReconstructs ==
    ( /\ pc = "done"
      /\ args.strategy = "recursive"
      /\ Strip(args.text) = args.text
      /\ args.chunk_size # None
      /\ args.chunk_overlap # None
      /\ 0 < args.chunk_overlap
      /\ args.chunk_overlap < args.chunk_size )
    => C11_Spells(ChunkTexts, 1, args.text)

\* The loader load_document sent the path to
Pipeline == PipelineOf(Normalized(file_extension))

\* The stages called so far
InvokedStages == { invoked[i].stage : i \in 1..Len(invoked) }

\* The stages of the loader that have not been called
UntriedStages == { Stages(Pipeline)[k] : k \in 1..Len(Stages(Pipeline)) } \ InvokedStages

\* C12: within one document's extraction no stage is invoked a second time,
\* on any path of any loader.
C12_EachStageAtMostOnce ==
    \A i, j \in 1..Len(invoked) : i # j => invoked[i].stage # invoked[j].stage

\* C13: in every loader, a stage's output is returned while later stages are
\* untried only if its trimmed length is strictly greater than 100; shorter
\* output (exactly 100 and empty included) makes the loader go on.
C13_GateOnEveryStage ==
    ( /\ lpc = "returned"
      /\ invoked[Len(invoked)].outcome.kind = "text"
      /\ UntriedStages # {} )
    => TrimmedLen(result.text) > QualityThreshold

\* The k-th backend call returned a text
ReturnedText(k) == invoked[k].outcome.kind = "text"

\* The first stage raised and the second returned a text of trimmed length 40
C14_FirstRaisedSecondShort ==
    /\ Len(invoked) >= 2
    /\ ~ReturnedText(1)
    /\ ReturnedText(2)
    /\ TrimmedLen(invoked[2].outcome.text) = 40

\* The third stage returned a text of length 500
C14_ThirdLong ==
    /\ Len(invoked) >= 3
    /\ ReturnedText(3)
    /\ TrimmedLen(invoked[3].outcome.text) = 500

C15_ShortCircuit ==
    \A k \in 1..Len(invoked) :
        (ReturnedText(k) /\ TrimmedLen(invoked[k].outcome.text) > QualityThreshold)
        => /\ k = Len(invoked)
           /\ lpc = "returned"
           /\ result.text = invoked[k].outcome.text
           /\ result.metadata = StageMetadata(Pipeline, invoked[k].stage)

C15_FirstStageAccepted ==
    /\ lpc = "returned"
    /\ Len(invoked) = 1
    /\ ReturnedText(1)
    /\ TrimmedLen(invoked[1].outcome.text) = 300
    /\ UntriedStages # {}

\* Every stage of the loader was called once, in order, no call met the gate,
\* and the last stage returned a text
C16_ExhaustedLastReturned ==
    /\ Len(invoked) = Len(Stages(Pipeline))
    /\ \A k \in 1..Len(invoked) :
          /\ invoked[k].stage = Stages(Pipeline)[k]
          /\ ReturnedText(k) => TrimmedLen(invoked[k].outcome.text) <= QualityThreshold
    /\ ReturnedText(Len(invoked))

\* C16: when every stage was tried, none met the gate and the last stage did
\* not raise, the loader returns exactly the last stage's text and metadata,
\* also when that text is below the threshold.
C16_BestEffortIsLastStage ==
    C16_ExhaustedLastReturned
    => /\ lpc = "returned"
       /\ result.text = invoked[Len(invoked)].outcome.text
       /\ result.metadata = StageMetadata(Pipeline, invoked[Len(invoked)].stage)

C16_PypdfShortReturned ==
    /\ Pipeline = "pdf"
    /\ C16_ExhaustedLastReturned
    /\ ReturnedText(1)
    /\ ReturnedText(2)
    /\ TrimmedLen(invoked[3].outcome.text) = 40
    /\ lpc = "returned"

\* Each stage of the loader was called, in order, and raised
C17_EveryStageRaised ==
    /\ Len(invoked) >= Len(Stages(Pipeline))
    /\ \A k \in 1..Len(Stages(Pipeline)) :
          /\ invoked[k].stage = Stages(Pipeline)[k]
          /\ ~ReturnedText(k)

\* C17: when every stage of a loader raises, load_document raises nothing and
\* returns the failure result: empty text, extraction_success False and the
\* error of the last stage of the ordered list.
C17_FailureCarriesLastError ==
    C17_EveryStageRaised
    => /\ lpc # "raised"
       /\ lpc = "returned"
            => /\ result.text = EmptyText
               /\ result.metadata =
                    FailureResult(Pipeline,
                                  invoked[Len(Stages(Pipeline))].outcome.error).metadata

\* C18: a result a loader returns is either a non-empty text whose metadata
\* carries no failure marker, or the empty text with the failure marker
\* (extraction_success False and an error).
C18_NeverPartiallyFilled ==
    lpc = "returned"
    => \/ /\ result.text # EmptyText
          /\ result.metadata.extraction_success = "absent"
          /\ result.metadata.extraction_error = NoError
       \/ /\ result.text = EmptyText
          /\ result.metadata.extraction_success = "False"
          /\ result.metadata.extraction_error # NoError

\* The loader the spec's table names for an extension given in any letter case
C19_Named(ext) ==
    IF \E e \in PdfExtensions : ext \in CaseVariants(e) THEN "pdf"
    ELSE IF \E e \in DocxExtensions : ext \in CaseVariants(e) THEN "docx"
    ELSE IF \E e \in TextExtensions : ext \in CaseVariants(e) THEN "text"
    ELSE IF \E e \in HtmlExtensions : ext \in CaseVariants(e) THEN "html"
    ELSE IF \E e \in CsvExtensions : ext \in CaseVariants(e) THEN "csv"
    ELSE IF \E e \in JsonExtensions : ext \in CaseVariants(e) THEN "json"
    ELSE "text"

C19_StagesOf(pipeline) == { Stages(pipeline)[k] : k \in 1..Len(Stages(pipeline)) }

\* C19: for an extension in any letter case load_document calls the loader
\* named for the lower-cased extension, the text loader for every other
\* extension and for none; only stages of that one loader are invoked, at
\* least one is, and load_document raises only when the path names no file.
C19_DispatchByLoweredExtension ==
    /\ lpc = "raised" => ~file_exists
    /\ \A k \in 1..Len(invoked) : invoked[k].stage \in C19_StagesOf(C19_Named(file_extension))
    /\ lpc = "returned" => invoked # <<>>
    /\ (lpc \notin {"idle", "call", "raised", "returned"} /\ invoked = <<>>)
         => lpc = Stages(C19_Named(file_extension))[1]

C19_MixedCasePdfLoaded ==
    /\ file_extension = << ".", "P", "d", "F" >>
    /\ lpc = "returned"
    /\ invoked[1].stage = "pdf_ocr"

\* C20: the status values recorded for one document follow the lifecycle
\* queued -> extracting -> chunking -> embedding -> completed | error: the
\* first value is the queued one, each later write records a value that
\* identifies its stage, so no value is recorded twice and the order is never
\* reversed, completed follows the three stage values, and nothing is written
\* after completed or error.
C20_StatusLifecycle ==
    /\ written # <<>> => written[1] = "uploaded"
    /\ \A i, j \in 1..Len(written) : i # j => written[i] # written[j]
    /\ \A i \in 1..Len(written) : written[i] = "completed" => i = 5
    /\ \A i \in 1..(Len(written) - 1) : written[i] \notin {"completed", "error"}

\* C24: chunk_text with the recursive strategy returns for every text: each
\* nested call gets the remaining, shorter separator list, so the recursion
\* ends at the base case len(text) <= chunk_size or at the empty separator,
\* which succeeds; the call neither raises nor runs on.  Stated for
\* 0 <= chunk_overlap < chunk_size.
C24_RecursiveAlwaysReturns ==
    ( /\ args.strategy = "recursive"
      /\ pc # "call"
      /\ 0 <= chunk_overlap
      /\ chunk_overlap < chunk_size )
    => pc = "done"

\* C29: chunk_text uses the caller's chunk_size and chunk_overlap whenever
\* they are supplied, and the configured defaults only when they are omitted;
\* a supplied chunk_overlap of 0 stays 0.
C29_SuppliedValuesAreUsed ==
    pc # "call"
    => /\ chunk_size = IF args.chunk_size = None THEN DefaultChunkSize ELSE args.chunk_size
       /\ chunk_overlap = IF args.chunk_overlap = None THEN DefaultChunkOverlap
                          ELSE args.chunk_overlap

\* The fixed-size windows of a sentence: window chunk_size, step
\* chunk_size - chunk_overlap
C26_Windows(sentence) ==
    [i \in 1..CeilDiv(Len(sentence), chunk_size - chunk_overlap) |->
        SubSeq(sentence, (i - 1) * (chunk_size - chunk_overlap) + 1,
               Min((i - 1) * (chunk_size - chunk_overlap) + chunk_size, Len(sentence)))]

C26_IsSuffix(s, t) == Len(s) <= Len(t) /\ SubSeq(t, Len(t) - Len(s) + 1, Len(t)) = s

\* The chunks from the j-th on are the windows of the k-th sentence, in
\* order and numbered by the shared counter; the chunk before them ends the
\* sentence before, the chunk after them begins the sentence after
C26_InPlace(ss, k, j) ==
    LET w == C26_Windows(ss[k])
    IN  /\ j + Len(w) - 1 <= Len(chunks)
        /\ \A i \in 1..Len(w) :
              /\ chunks[j + i - 1].text = w[i]
              /\ chunks[j + i - 1].metadata["chunk_index"] = j + i - 2
        /\ IF k = 1 THEN j = 1
           ELSE /\ j > 1
                /\ \/ C26_IsSuffix(ss[k - 1], chunks[j - 1].text)
                   \/ C26_IsSuffix(chunks[j - 1].text, ss[k - 1])
        /\ IF k = Len(ss) THEN j + Len(w) - 1 = Len(chunks)
           ELSE /\ j + Len(w) <= Len(chunks)
                /\ \/ IsPrefix(ss[k + 1], chunks[j + Len(w)].text)
                   \/ IsPrefix(chunks[j + Len(w)].text, ss[k + 1])

\* C26: in the sentence strategy with 0 <= chunk_overlap < chunk_size, a
\* sentence longer than chunk_size appears in the result as its fixed-size
\* windows, in place: the sentences buffered before it are emitted first,
\* the windows follow in order and cover the sentence, and their indices
\* continue the shared counter.
C26_LongSentenceWindowed ==
    ( /\ pc = "done"
      /\ args.strategy = "sentence"
      /\ 0 <= chunk_overlap
      /\ chunk_overlap < chunk_size )
    => \A k \in 1..Len(Sentences(args.text)) :
          Len(Sentences(args.text)[k]) > chunk_size
          => \E j \in 1..Len(chunks) : C26_InPlace(Sentences(args.text), k, j)

C26_LongSentenceBetweenShort ==
    /\ pc = "done"
    /\ args = LongSentenceCall
    /\ Len(chunks) = 5
    /\ C26_InPlace(Sentences(args.text), 2, 2)

\* The number of paragraphs in the longest run of whole trailing paragraphs
\* of run whose cumulative length is <= chunk_overlap
C27_TailCount(run) ==
    SetMax({ r \in 0..Len(run) :
                SumLen(SubSeq(run, Len(run) - r + 1, Len(run))) <= chunk_overlap })

\* The i-th chunk is the paragraphs ps[from..to] joined by blank lines; the
\* next chunk is the tail run of these followed by the next paragraphs, and
\* so on up to the last chunk, which ends with the last paragraph
RECURSIVE C27_Chain(_, _, _, _)
C27_Chain(ps, i, from, to) ==
    /\ chunks[i].text = Join(SubSeq(ps, from, to), << "\n", "\n" >>)
    /\ IF i = Len(chunks) THEN to = Len(ps)
       ELSE \E next \in (to + 1)..Len(ps) :
               C27_Chain(ps, i + 1, to + 1 - C27_TailCount(SubSeq(ps, from, to)), next)

\* C27: in the paragraph strategy each chunk after the first starts with the
\* longest run of whole trailing paragraphs of the chunk before it whose
\* cumulative length is <= chunk_overlap (none when the last paragraph alone
\* is longer), followed by the next paragraph; every paragraph of the input
\* is in some chunk, unsplit and in input order, also one longer than
\* chunk_size.
C27_ParagraphTailOverlap ==
    (pc = "done" /\ args.strategy = "paragraph" /\ Paragraphs(args.text) # <<>>)
    => \E to \in 1..Len(Paragraphs(args.text)) : C27_Chain(Paragraphs(args.text), 1, 1, to)

C27_SampleSeededAndUnseeded ==
    /\ pc = "done"
    /\ args = ParagraphSampleCall
    /\ Len(chunks) = 3
    /\ C27_Chain(Paragraphs(args.text), 1, 1, 3)
    /\ chunks[2].text = << "c", "\n", "\n", "d", "e", "\n", "\n",
                           "f", "g", "h", "i", "j", "k", "l" >>
    /\ chunks[3].text = << "m" >>

\* C25: the seed that follows an emitted buffer is a suffix of the buffer of
\* at most chunk_overlap characters; when a separator occurs inside the last
\* chunk_overlap characters of the buffer the seed is the text after the last
\* occurrence of such a separator, and only else the raw tail
C25_Occurrences(buffer, sep, overlap) ==
    {p \in Max(0, Len(buffer) - overlap)..(Len(buffer) - Len(sep)) :
        SubSeq(buffer, p + 1, p + Len(sep)) = sep}

C25_InWindow(buffer, seps, overlap) ==
    {k \in 1..Len(seps) :
        seps[k] # <<>> /\ C25_Occurrences(buffer, seps[k], overlap) # {}}

C25_RawTail(buffer, overlap) ==
    SubSeq(buffer, Max(0, Len(buffer) - overlap) + 1, Len(buffer))

C25_SeedFollowsSeparator ==
    (fpc = "done" /\ fargs.fn = "overlap_text") =>
        LET buffer == fargs.chunk_text
            seps == fargs.separators
            overlap == fargs.chunk_overlap
            found == C25_InWindow(buffer, seps, overlap)
        IN  /\ Len(fret) <= overlap
            /\ fret = SubSeq(buffer, Len(buffer) - Len(fret) + 1, Len(buffer))
            /\ IF found # {}
               THEN \E k \in found :
                       fret = SubSeq(buffer,
                                     SetMax(C25_Occurrences(buffer, seps[k], overlap))
                                         + Len(seps[k]) + 1,
                                     Len(buffer))
               ELSE fret = C25_RawTail(buffer, overlap)

\* C25, the part that holds: the seed is a suffix of the emitted buffer of at
\* most chunk_overlap characters
C25_SeedIsShortSuffix ==
    (fpc = "done" /\ fargs.fn = "overlap_text") =>
        /\ Len(fret) <= fargs.chunk_overlap
        /\ fret = SubSeq(fargs.chunk_text, Len(fargs.chunk_text) - Len(fret) + 1,
                         Len(fargs.chunk_text))

\* How many dicts and lists of v, itself at depth d, lie at depth at
RECURSIVE C28_ContainersAt(_, _, _), C28_ContainersIn(_, _, _, _)
C28_ContainersIn(items, k, d, at) ==
    IF k > Len(items) THEN 0
    ELSE C28_ContainersAt(items[k].value, d, at) + C28_ContainersIn(items, k + 1, d, at)

C28_ContainersAt(v, d, at) ==
    IF ~IsContainer(v) \/ d > at THEN 0
    ELSE IF d = at THEN 1
    ELSE C28_ContainersIn(v.items, 1, d + 1, at)

\* The scalars of v, itself at depth d, whose enclosing dicts and lists all lie
\* at a depth below limit, in document order
RECURSIVE C28_ScalarsAbove(_, _, _), C28_ScalarsIn(_, _, _, _)
C28_ScalarsIn(items, k, d, limit) ==
    IF k > Len(items) THEN <<>>
    ELSE C28_ScalarsAbove(items[k].value, d, limit)
         \o C28_ScalarsIn(items, k + 1, d, limit)

C28_ScalarsAbove(v, d, limit) ==
    IF ~IsContainer(v) THEN << v.value >>
    ELSE IF d >= limit THEN <<>>
    ELSE C28_ScalarsIn(v.items, 1, d + 1, limit)

\* The scalars the lines show, in order
RECURSIVE C28_Shown(_, _)
C28_Shown(lines, k) ==
    IF k > Len(lines) THEN <<>> ELSE lines[k].values \o C28_Shown(lines, k + 1)

C28_LinesOf(kind) == {i \in 1..Len(fret) : fret[i].kind = kind}

\* C28: json_to_text(data) returns; no line is written by a call deeper than 5;
\* each dict or list at depth 5 is one truncation marker and nothing below it
\* is shown; every dict or list at depth 1..5 is announced by its key line and
\* every scalar outside the truncated values is shown
C28_TruncatedAtDepthFive ==
    (fpc = "done" /\ fargs.fn = "json_to_text") =>
        /\ \A i \in 1..Len(fret) : fret[i].depth <= DefaultMaxDepth
        /\ \A i \in C28_LinesOf("truncated") :
              fret[i].depth = DefaultMaxDepth /\ fret[i].values = <<>>
        /\ Cardinality(C28_LinesOf("truncated"))
              = C28_ContainersAt(fargs.data, 0, DefaultMaxDepth)
        /\ Cardinality(C28_LinesOf("key"))
              = C28_ContainersAt(fargs.data, 0, 1) + C28_ContainersAt(fargs.data, 0, 2)
                + C28_ContainersAt(fargs.data, 0, 3) + C28_ContainersAt(fargs.data, 0, 4)
                + C28_ContainersAt(fargs.data, 0, 5)
        /\ C28_Shown(fret, 1) = C28_ScalarsAbove(fargs.data, 0, DefaultMaxDepth)

\* A document with two containers at depth 5, one of them holding a further
\* container, has been rendered
C28_DeepDocumentRendered ==
    /\ fpc = "done"
    /\ fargs.fn = "json_to_text"
    /\ C28_ContainersAt(fargs.data, 0, 5) >= 2
    /\ C28_ContainersAt(fargs.data, 0, 6) >= 1
    /\ Cardinality(C28_LinesOf("truncated")) >= 2

\* C21: a process_document task that has ended has left the status of its
\* document at completed, error or cancelled
C21_EndsTerminal ==
    ppc = "done" => status \in {"completed", "error", "cancelled"}

\* C22: once the task of a document whose extraction failed entirely has ended,
\* the metadata file holds the status error and, in some other field, a reason
C22_FailureRecordHoldsReason ==
    (ppc = "done" /\ (lpc = "raised" \/ result.text = EmptyText)) =>
        /\ Document.status = "error"
        /\ \E field \in DOMAIN Document \ {"status"} : Document[field] # None

\* The positions of trace where call ended with outcome
C30_Calls(call, outcome) ==
    {i \in 1..Len(trace) : trace[i].call = call /\ trace[i].outcome = outcome}

\* The positions of trace where update_document_status was called with s
C30_StatusCalls(s) ==
    {i \in 1..Len(trace) : trace[i].call = "update_document_status" /\ trace[i].arg = s}

\* C30: store_chunks is called only after load_document returned text and
\* chunk_text returned chunks; completed is written only after store_chunks
\* returned; after a call that raised, error is written and completed is not
C30_OrderedHandOff ==
    /\ \A i \in C30_Calls("store_chunks", "returned") \cup C30_Calls("store_chunks", "raised") :
          \E j \in C30_Calls("load_document", "text"), k \in C30_Calls("chunk_text", "chunks") :
              j < k /\ k < i
    /\ \A i \in C30_StatusCalls("completed") :
          \E j \in C30_Calls("store_chunks", "returned") : j < i
    /\ \A k \in 1..Len(written) :
          written[k] = "completed" => C30_Calls("store_chunks", "returned") # {}
    /\ \A i \in 1..Len(trace) :
          trace[i].outcome = "raised" =>
              /\ \E k \in C30_StatusCalls("error") : k > i
              /\ C30_StatusCalls("completed") = {}
              /\ status = "error"
              /\ \A k \in 1..Len(written) : written[k] # "completed"

\* store_chunks was called and raised, and the task has ended
C30_StorageRaised ==
    /\ ppc = "done"
    /\ C30_Calls("store_chunks", "raised") # {}
    /\ C30_Calls("chunk_text", "chunks") # {}
    /\ status = "error"

\* The document after the updates were applied to it in order
RECURSIVE C23_Applied(_, _)
C23_Applied(document, updates) ==
    IF updates = <<>> THEN document
    ELSE C23_Applied(Updated(document, Head(updates)), Tail(updates))

\* C23: whatever the interleaving of the reads and writes of the tasks, no
\* task writes back a document that another write has outdated, and every
\* metadata file holds the effect of all updates made to it so far, in order:
\* those of the task of its document and of no other
C23_NoLostUpdate ==
    \A t \in Tasks :
        /\ tpc[t].phase = "write" => local[t] = files[DocIdOf(t)]
        /\ files[DocIdOf(t)] = C23_Applied(UploadedDocument, tpc[t].applied)

\* Two tasks are each between the read and the write of an update, after
\* earlier updates of both
C23_TwoUpdatesInterleaved ==
    \E t, u \in Tasks :
        /\ t # u
        /\ tpc[t].phase = "write" /\ tpc[t].applied # <<>>
        /\ tpc[u].phase = "write" /\ tpc[u].applied # <<>>
        /\ Head(tpc[t].todo).field = "status"
        /\ Head(tpc[u].todo).field = "chunk_count"

====
